---- MODULE Spec2Model ----
(***************************************************************************)
(* MusicManager: the track store (core/database_manager.py), the           *)
(* acquisition stage (services/downloader.py) and the organization stage   *)
(* (services/organizer.py), as one sequential process working on one       *)
(* SQLite file.  Every store call and every collaborator call of a run is   *)
(* one step, so the states between two writes are visible.  A call of the  *)
(* organization stage ends in the constructor of its service.              *)
(***************************************************************************)
EXTENDS Integers, Sequences, FiniteSets, TLC

\* ------------------------------------------------------------------ bounds
MaxTracks == 2
MaxRemaining == 2
MaxLimit == 2
MaxStampedVersion == 2
MaxPlaylist == 3

\* --------------------------------------------------------------- constants
Null == "null"
NoPath == <<>>       \* a NULL path column
NoText == <<>>       \* a search text that is None or ""
URIs == 1..MaxTracks
Limits == (0 - 1)..MaxLimit
ReturnCodes == {0, 1}

Statuses ==
    {"queued", "processing_download", "download_complete", "download_failed",
     "skipped", "processing_picard", "organized", "picard_failed"}
FailureStatuses == {"download_failed", "picard_failed"}

\* The display fields a catalog item can carry (strings are sequences of
\* one-character strings).
NameTriples ==
    { [artist |-> <<"a", "b">>, title |-> <<"B">>, album |-> <<"c">>],
      [artist |-> <<"C">>, title |-> <<"a", "_">>, album |-> <<"b">>] }

\* The display fields of catalog item u.
CatalogNames(u) ==
    IF u % 2 = 1
    THEN [artist |-> <<"a", "b">>, title |-> <<"B">>, album |-> <<"c">>]
    ELSE [artist |-> <<"C">>, title |-> <<"a", "_">>, album |-> <<"b">>]

\* ------------------------------------------------------------------- state
VARIABLES
    tracks,             \* the tracks table: spotify_uri -> row
    metadata,           \* the metadata table: track id -> recording id of its row
    daily_limit,        \* DownloaderService.daily_limit (from the configuration)
    limit,              \* the argument of process_download_queue, until the fetch
    remaining_quota,    \* its local of line 73, until the fetch
    quota_usage,        \* DownloaderService.quota_usage (process memory)
    pc,                 \* position of the running stage, "idle" between calls
    queued_tracks,      \* the list fetched at the start of the run (row snapshots)
    idx,                \* position of the loop in queued_tracks
    exc,                \* the exception the handler of the loop body has caught
    run,                \* history of the current or last run
    lastOp,             \* history of the last store operation called by a front end
    db_file,            \* the database file: user_version and the schema objects
    journal,            \* the connection's open transaction: <<file at BEGIN>>, or <<>>
    other,              \* the locals of a second worker, while the first one executes
    config              \* ConfigManager.config: the sections in insertion order

vars ==
    <<tracks, metadata, daily_limit, limit, remaining_quota, quota_usage, pc,
      queued_tracks, idx, exc, run, lastOp, db_file, journal,
      other, config>>

\* What the two stages and the data-access calls leave alone.
env == <<db_file, journal, other, config>>

\* ------------------------------------------------------ helper operators
Min(a, b) == IF a <= b THEN a ELSE b

RECURSIVE SeqOfSet(_, _)
\* The rows of set S ordered by added_date, ascending (asc = TRUE) or descending.
SeqOfSet(S, asc) ==
    IF S = {} THEN <<>>
    ELSE LET first == CHOOSE r \in S : \A o \in S :
                         IF asc THEN r.added_date <= o.added_date
                                ELSE r.added_date >= o.added_date
         IN <<first>> \o SeqOfSet(S \ {first}, asc)

Take(s, n) == IF n >= Len(s) THEN s ELSE SubSeq(s, 1, n)

Rows(db) == { db[u] : u \in DOMAIN db }

\* A fresh row as the schema's defaults give it (status NOT NULL, fail_count
\* DEFAULT 0, status_lidarr DEFAULT 'unknown').
NewRow(uri, names, added, fails) ==
    [ spotify_uri |-> uri, id |-> uri,
      artist_name_spotify |-> names.artist,
      track_name_spotify |-> names.title,
      album_name_spotify |-> names.album,
      status |-> "queued",
      added_date |-> added,
      last_attempt_date |-> IF fails = 0 THEN Null ELSE "set",
      fail_count |-> fails,
      error_message |-> IF fails = 0 THEN Null ELSE "exit_code",
      temp_download_path |-> NoPath,
      local_path |-> NoPath,
      status_lidarr |-> "unknown" ]

\* ------------------------------------------------------------ track store
\* Store calls of the stages that database_manager.py does not define.

UpdateTrackStatus(db, uri, status, message) ==
    IF uri \notin DOMAIN db THEN db
    ELSE [db EXCEPT ![uri] =
            [@ EXCEPT !.status = status,
                      !.error_message = message,
                      !.last_attempt_date = "set",
                      !.fail_count = IF status \in FailureStatuses THEN @ + 1 ELSE @]]

GetTracksByStatus(db, status, lim) ==
    LET all == SeqOfSet({ r \in Rows(db) : r.status = status }, TRUE)
    IN IF lim > 0 THEN Take(all, lim) ELSE all

UpdateLidarrStatus(db, uri, value) ==
    IF uri \notin DOMAIN db THEN db ELSE [db EXCEPT ![uri].status_lidarr = value]

UpdateTempPath(db, uri, path) ==
    IF uri \notin DOMAIN db THEN db ELSE [db EXCEPT ![uri].temp_download_path = path]

\* dict(row) of SELECT t.*, m.* over the left join: <<dict>>, or <<>> for None.
\* Both tables have columns id and musicbrainz_recording_id and the dict keeps
\* the tracks value for a name that occurs twice, so the recording id of the
\* metadata row is not in the result; track_db_id is <<id>> when a metadata row
\* was joined and <<>> (NULL) when none was.
GetTrackDetails(db, md, uri) ==
    IF uri \in DOMAIN db
    THEN << [ track |-> db[uri],
              track_db_id |-> IF md[db[uri].id] = "no_row"
                              THEN << >> ELSE << db[uri].id >> ] >>
    ELSE << >>

\* Store calls database_manager.py defines.
QueueTrackOk(db, uri) == TRUE
QueueTrackDb(db, uri, names) == db
ResetTrackStatusOk(db, uri) == TRUE
ResetTrackStatusDb(db, uri) == db
ResetAllFailedCount(db) == 5
ResetAllFailedDb(db) == db
RemoveTrackOk(db, uri) == TRUE
RemoveTrackDb(db, uri) == db

\* SQLite LIKE on ASCII text: case-insensitive, % any run, _ any one character.
Lower(c) == CASE c = "A" -> "a" [] c = "B" -> "b" [] c = "C" -> "c" [] OTHER -> c

RECURSIVE Like(_, _)
Like(pat, s) ==
    IF pat = <<>> THEN s = <<>>
    ELSE IF Head(pat) = "%"
         THEN \/ Like(Tail(pat), s)
              \/ s # <<>> /\ Like(pat, Tail(s))
    ELSE /\ s # <<>>
         /\ (Head(pat) = "_" \/ Lower(Head(pat)) = Lower(Head(s)))
         /\ Like(Tail(pat), Tail(s))

LikeQuery(query) == <<"%">> \o query \o <<"%">>

SearchTracks(db, query, status) ==
    LET hasQ == query # NoText
        hasS == status # Null
        hit(r) == /\ hasQ => \/ Like(LikeQuery(query), r.artist_name_spotify)
                             \/ Like(LikeQuery(query), r.track_name_spotify)
                             \/ Like(LikeQuery(query), r.album_name_spotify)
                  /\ hasS => r.status = status
    IN SeqOfSet({ r \in Rows(db) : hit(r) }, FALSE)

\* ------------------------------------------------------- acquisition stage
LoadQuotaUsage == 10

RemainingQuota(daily, usage) == daily - usage

\* Mutant: the guard lets a run with exactly no quota left go on.
QuotaReachedStrict(remaining) == remaining < 0

QuotaReached(remaining) == remaining <= 0

ProcessLimit(lim, remaining) ==
    IF lim = 0 THEN remaining ELSE Min(lim, remaining)

TempPath(row) == <<"unorganized", row.track_name_spotify, "m4a">>

\* Mutant: the exit code of the downloader is not looked at.
DownloadResultPcIgnoresCode(return_code) == "acq_complete"

DownloadResultPc(return_code) ==
    IF return_code = 0 THEN "acq_complete" ELSE "acq_failed"

DailyLimits == (LoadQuotaUsage - 1)..(LoadQuotaUsage + MaxRemaining)

NoRun ==
    [ kind |-> "none", usage0 |-> 0, outcome |-> "none",
      fetch_calls |-> 0, dl_ok |-> {}, dl_fail |-> {},
      start |-> {}, absent |-> {}, reported |-> {} ]

NoOp == [ op |-> "none" ]

\* Mutant: every iteration takes the last fetched track.
curLast == queued_tracks[Len(queued_tracks)]

cur == queued_tracks[idx]

\* End of one loop iteration: the next fetched track, or the end of the run.
NextTrack(loopPc, r) ==
    IF idx < Len(queued_tracks)
    THEN /\ idx' = idx + 1
         /\ pc' = loopPc
         /\ run' = r
    ELSE /\ idx' = 0
         /\ pc' = "idle"
         /\ run' = [r EXCEPT !.outcome = "done"]

\* The exception bound by "except Exception as e" when the step enters the
\* handler of the loop body.
Caught(e) == IF pc' = "acq_except" THEN e ELSE Null

\* An exception leaves the function: the run ends where it is.
Propagate(outcome) ==
    /\ idx' = 0
    /\ pc' = "idle"
    /\ run' = [run EXCEPT !.outcome = outcome]

AcqStart ==
    /\ pc = "idle"
    /\ \E l \in Limits :
        LET remaining == RemainingQuota(daily_limit, quota_usage)
            r0 == [NoRun EXCEPT !.kind = "acq", !.usage0 = quota_usage,
                                !.outcome = "running"]
        IN IF QuotaReached(remaining)
           THEN /\ run' = [r0 EXCEPT !.outcome = "quota"]
                /\ UNCHANGED <<pc, limit, remaining_quota>>
           ELSE /\ run' = r0
                /\ pc' = "acq_fetch"
                /\ limit' = l
                /\ remaining_quota' = remaining
    /\ queued_tracks' = <<>>
    /\ lastOp' = NoOp
    /\ exc' = Null
    /\ UNCHANGED env
    /\ UNCHANGED <<tracks, metadata, daily_limit, quota_usage, idx>>

AcqFetch ==
    /\ pc = "acq_fetch"
    /\ \E ok \in BOOLEAN :
        LET r1 == [run EXCEPT !.fetch_calls = 1]
            q == GetTracksByStatus(tracks, "queued",
                                   ProcessLimit(limit, remaining_quota))
        IN IF ~ok
           THEN /\ run' = [r1 EXCEPT !.outcome = "store_error"]
                /\ pc' = "idle"
                /\ UNCHANGED <<queued_tracks, idx>>
           ELSE IF q = <<>>
           THEN /\ run' = [r1 EXCEPT !.outcome = "empty"]
                /\ pc' = "idle"
                /\ UNCHANGED <<queued_tracks, idx>>
           ELSE /\ run' = r1
                /\ queued_tracks' = q
                /\ pc' = "acq_begin"
                /\ idx' = 1
    /\ limit' = 0
    /\ remaining_quota' = 0
    /\ exc' = Null
    /\ UNCHANGED env
    /\ UNCHANGED <<tracks, metadata, daily_limit, quota_usage, lastOp>>

AcqBegin ==
    /\ pc = "acq_begin"
    /\ \E ok \in BOOLEAN :
        IF ok
        THEN /\ tracks' = UpdateTrackStatus(tracks, cur.spotify_uri,
                                            "processing_download", "starting")
             /\ pc' = "acq_lidarr"
        ELSE /\ pc' = "acq_except"
             /\ UNCHANGED tracks
    /\ exc' = Caught("sqlite3.Error")
    /\ UNCHANGED env
    /\ UNCHANGED <<metadata, daily_limit, limit, remaining_quota, quota_usage,
                   queued_tracks, idx, run, lastOp>>

AcqLidarr ==
    /\ pc = "acq_lidarr"
    /\ \E is_configured \in BOOLEAN,
          album_status \in {"unknown", "monitored", "on_disk", "raise"} :
       IF ~is_configured
       THEN pc' = "acq_download"
       ELSE pc' = CASE album_status = "on_disk" -> "acq_skip"
                  [] album_status = "monitored" -> "acq_monitored"
                  [] album_status = "raise" -> "acq_except"
                  [] OTHER -> "acq_download"
    /\ run' = IF pc' \in {"acq_skip", "acq_monitored"}
              THEN [run EXCEPT !.reported = @ \cup
                        {<<cur.spotify_uri,
                           IF pc' = "acq_skip" THEN "on_disk" ELSE "monitored">>}]
              ELSE run
    /\ exc' = Caught("Exception")
    /\ UNCHANGED env
    /\ UNCHANGED <<tracks, metadata, daily_limit, limit, remaining_quota, quota_usage,
                   queued_tracks, idx, lastOp>>

AcqSkip ==
    /\ pc = "acq_skip"
    /\ \E ok \in BOOLEAN :
        IF ok
        THEN /\ tracks' = UpdateTrackStatus(tracks, cur.spotify_uri,
                                            "skipped", "fulfilled_by_lidarr")
             /\ pc' = "acq_skip_lidarr"
        ELSE /\ pc' = "acq_except"
             /\ UNCHANGED tracks
    /\ exc' = Caught("sqlite3.Error")
    /\ UNCHANGED env
    /\ UNCHANGED <<metadata, daily_limit, limit, remaining_quota, quota_usage,
                   queued_tracks, idx, run, lastOp>>

AcqSkipLidarr ==
    /\ pc = "acq_skip_lidarr"
    /\ \E ok \in BOOLEAN :
        IF ok
        THEN /\ tracks' = UpdateLidarrStatus(tracks, cur.spotify_uri, "on_disk")
             /\ NextTrack("acq_begin", run)
        ELSE /\ pc' = "acq_except"
             /\ UNCHANGED <<tracks, idx, run>>
    /\ exc' = Caught("sqlite3.Error")
    /\ UNCHANGED env
    /\ UNCHANGED <<metadata, daily_limit, limit, remaining_quota, quota_usage,
                   queued_tracks, lastOp>>

AcqMonitored ==
    /\ pc = "acq_monitored"
    /\ \E ok \in BOOLEAN :
        IF ok
        THEN /\ tracks' = UpdateLidarrStatus(tracks, cur.spotify_uri, "monitored")
             /\ pc' = "acq_download"
        ELSE /\ pc' = "acq_except"
             /\ UNCHANGED tracks
    /\ exc' = Caught("sqlite3.Error")
    /\ UNCHANGED env
    /\ UNCHANGED <<metadata, daily_limit, limit, remaining_quota, quota_usage,
                   queued_tracks, idx, run, lastOp>>

AcqDownload ==
    /\ pc = "acq_download"
    /\ \E raised \in BOOLEAN, return_code \in ReturnCodes :
        IF raised
        THEN /\ pc' = "acq_except"
             /\ run' = [run EXCEPT !.dl_fail = @ \cup {cur.spotify_uri}]
        ELSE /\ pc' = DownloadResultPc(return_code)
             /\ run' = IF return_code = 0
                       THEN [run EXCEPT !.dl_ok = @ \cup {cur.spotify_uri}]
                       ELSE [run EXCEPT !.dl_fail = @ \cup {cur.spotify_uri}]
    /\ exc' = Caught("Exception")
    /\ UNCHANGED env
    /\ UNCHANGED <<tracks, metadata, daily_limit, limit, remaining_quota,
                   quota_usage, queued_tracks, idx, lastOp>>

AcqComplete ==
    /\ pc = "acq_complete"
    /\ \E ok \in BOOLEAN :
        IF ok
        THEN /\ tracks' = UpdateTrackStatus(tracks, cur.spotify_uri,
                                            "download_complete", "downloaded")
             /\ pc' = "acq_temp_path"
        ELSE /\ pc' = "acq_except"
             /\ UNCHANGED tracks
    /\ exc' = Caught("sqlite3.Error")
    /\ UNCHANGED env
    /\ UNCHANGED <<metadata, daily_limit, limit, remaining_quota, quota_usage,
                   queued_tracks, idx, run, lastOp>>

AcqTempPath ==
    /\ pc = "acq_temp_path"
    /\ \E ok \in BOOLEAN :
        IF ok
        THEN /\ tracks' = UpdateTempPath(tracks, cur.spotify_uri, TempPath(cur))
             /\ pc' = "acq_count"
        ELSE /\ pc' = "acq_except"
             /\ UNCHANGED tracks
    /\ exc' = Caught("sqlite3.Error")
    /\ UNCHANGED env
    /\ UNCHANGED <<metadata, daily_limit, limit, remaining_quota, quota_usage,
                   queued_tracks, idx, run, lastOp>>

\* self.quota_usage += 1 and _save_quota_usage (which writes nothing).
AcqCount ==
    /\ pc = "acq_count"
    /\ quota_usage' = quota_usage + 1
    /\ NextTrack("acq_begin", run)
    /\ exc' = Null
    /\ UNCHANGED env
    /\ UNCHANGED <<tracks, metadata, daily_limit, limit, remaining_quota,
                   queued_tracks, lastOp>>

AcqFailed ==
    /\ pc = "acq_failed"
    /\ \E ok \in BOOLEAN :
        IF ok
        THEN /\ tracks' = UpdateTrackStatus(tracks, cur.spotify_uri,
                                            "download_failed", "exit_code")
             /\ NextTrack("acq_begin", run)
        ELSE /\ pc' = "acq_except"
             /\ UNCHANGED <<tracks, idx, run>>
    /\ exc' = Caught("sqlite3.Error")
    /\ UNCHANGED env
    /\ UNCHANGED <<metadata, daily_limit, limit, remaining_quota, quota_usage,
                   queued_tracks, lastOp>>

\* Mutant: the handler writes the failure and raises the exception again.
AcqExceptReraises ==
    /\ pc = "acq_except"
    /\ \E ok \in BOOLEAN :
        IF ok
        THEN /\ tracks' = UpdateTrackStatus(tracks, cur.spotify_uri,
                                            "download_failed", "unexpected")
             /\ Propagate("error")
        ELSE /\ Propagate("store_error")
             /\ UNCHANGED tracks
    /\ exc' = Null
    /\ UNCHANGED env
    /\ UNCHANGED <<metadata, daily_limit, limit, remaining_quota, quota_usage,
                   queued_tracks, lastOp>>

AcqExcept ==
    /\ pc = "acq_except"
    /\ \E ok \in BOOLEAN :
        IF ok
        THEN /\ tracks' = UpdateTrackStatus(tracks, cur.spotify_uri,
                                            "download_failed", "unexpected")
             /\ NextTrack("acq_begin", run)
        ELSE /\ Propagate("store_error")
             /\ UNCHANGED tracks
    /\ exc' = Null
    /\ UNCHANGED env
    /\ UNCHANGED <<metadata, daily_limit, limit, remaining_quota, quota_usage,
                   queued_tracks, lastOp>>

\* ------------------------------------------------------ organization stage
\* The path _find_organized_file gives (organizer.py:138-140).
FinalPath(row) == <<row.artist_name_spotify, row.track_name_spotify, "m4a">>

\* ConfigManager.get_path: the keys it resolves; any other key raises KeyError.
PathKeys ==
    {"music_root_dir", "unorganized_subdir", "organized_subdir", "database_file"}

GetPathRaises(key) == key \notin PathKeys

\* OrganizerService(config, db).process_newly_downloaded(): the constructor
\* asks get_path for "picard_config_file" before anything else; the KeyError
\* leaves the call there, the store is neither read nor written. start and
\* absent record what the run was called on: the download_complete tracks,
\* and those of them whose temp file is no longer on disk.
OrgStart ==
    /\ pc = "idle"
    /\ GetPathRaises("picard_config_file")
    /\ LET start == { u \in DOMAIN tracks : tracks[u].status = "download_complete" }
       IN \E absent \in SUBSET start :
            run' = [NoRun EXCEPT !.kind = "org", !.usage0 = quota_usage,
                                 !.outcome = "KeyError",
                                 !.start = start, !.absent = absent]
    /\ queued_tracks' = <<>>
    /\ lastOp' = NoOp
    /\ exc' = Null
    /\ UNCHANGED env
    /\ UNCHANGED <<tracks, metadata, daily_limit, limit, remaining_quota,
                   quota_usage, pc, idx>>

\* ------------------------------------------------- front-end store calls
Queries == {NoText, <<"a">>, <<"B">>, <<"_">>, <<"b", "c">>}

\* Between two runs the front ends call the store; the run history is dropped.
Forget ==
    /\ run' = NoRun
    /\ queued_tracks' = <<>>
    /\ exc' = Null
    /\ UNCHANGED env
    /\ UNCHANGED <<metadata, daily_limit, limit, remaining_quota, quota_usage, pc,
                   idx>>

QueueTrack ==
    /\ pc = "idle"
    /\ \E uri \in URIs, names \in NameTriples :
        /\ tracks' = QueueTrackDb(tracks, uri, names)
        /\ lastOp' = [ op |-> "queue_track", uri |-> uri, names |-> names,
                       was_present |-> uri \in DOMAIN tracks,
                       ok |-> QueueTrackOk(tracks, uri) ]
    /\ Forget

SearchTracksCall ==
    /\ pc = "idle"
    /\ \E query \in Queries, status \in {Null, "queued", "download_failed"} :
        lastOp' = [ op |-> "search_tracks", query |-> query, status |-> status,
                    rows |-> SearchTracks(tracks, query, status) ]
    /\ UNCHANGED tracks
    /\ Forget

ResetTrackStatus ==
    /\ pc = "idle"
    /\ \E uri \in URIs :
        /\ tracks' = ResetTrackStatusDb(tracks, uri)
        /\ lastOp' = [ op |-> "reset_track_status", uri |-> uri,
                       before |-> tracks,
                       ok |-> ResetTrackStatusOk(tracks, uri) ]
    /\ Forget

ResetAllFailedTracks ==
    /\ pc = "idle"
    /\ tracks' = ResetAllFailedDb(tracks)
    /\ lastOp' = [ op |-> "reset_all_failed_tracks", before |-> tracks,
                   count |-> ResetAllFailedCount(tracks) ]
    /\ Forget

RemoveTrack ==
    /\ pc = "idle"
    /\ \E uri \in URIs :
        /\ tracks' = RemoveTrackDb(tracks, uri)
        /\ lastOp' = [ op |-> "remove_track", uri |-> uri,
                       before |-> tracks, before_md |-> metadata,
                       ok |-> RemoveTrackOk(tracks, uri) ]
    /\ Forget

\* The process is terminated (at any point of a run) and started again: the
\* new DownloaderService loads its quota usage, the database file stays.
Restart ==
    /\ quota_usage' = LoadQuotaUsage
    /\ pc' = "idle"
    /\ idx' = 0
    /\ queued_tracks' = <<>>
    /\ run' = IF pc = "idle" THEN NoRun
              ELSE [NoRun EXCEPT !.kind = run.kind, !.outcome = "killed"]
    /\ lastOp' = [ op |-> "restart", usage_before |-> quota_usage ]
    /\ limit' = 0
    /\ remaining_quota' = 0
    /\ exc' = Null
    /\ UNCHANGED env
    /\ UNCHANGED <<tracks, metadata, daily_limit>>

\* ------------------------------------------------------ playlist generator
\* {spotify_uri: local_path} of the listed tracks that are organized.
GetPathsForUris(db, spotify_uris) ==
    [u \in { v \in DOMAIN db : /\ \E i \in 1..Len(spotify_uris) : spotify_uris[i] = v
                                /\ db[v].status = "organized" }
        |-> db[u].local_path]

M3uHeader == <<"#EXTM3U">>

\* os.path.relpath of music_root / path from the playlist directory, a
\* directory directly under the music root.
PathInM3u(path) == <<"..">> \o path

RECURSIVE PlaylistLines(_, _)
\* One line per URI whose path_map entry is a non-empty path, in input order.
PlaylistLines(path_map, spotify_uris) ==
    IF spotify_uris = << >> THEN << >>
    ELSE LET uri == Head(spotify_uris)
             rest == PlaylistLines(path_map, Tail(spotify_uris))
         IN IF uri \in DOMAIN path_map /\ path_map[uri] # NoPath
            THEN <<PathInM3u(path_map[uri])>> \o rest
            ELSE rest

UriLists == UNION { [1..n -> URIs] : n \in 0..MaxPlaylist }

\* PlaylistGenerator(config, db).generate_playlist_from_uris(name, uris): the
\* constructor asks get_path for "playlist_subdir"; the method has no return
\* statement (returned = << >> stands for None).
GeneratePlaylist ==
    /\ pc = "idle"
    /\ \E spotify_uris \in UriLists, m3u_generator_enabled \in BOOLEAN :
        LET op == [ op |-> "generate_playlist", uris |-> spotify_uris,
                    raised |-> "none", file |-> << >>, returned |-> << >> ]
        IN lastOp' =
             IF GetPathRaises("playlist_subdir")
             THEN [op EXCEPT !.raised = "KeyError"]
             ELSE IF ~m3u_generator_enabled THEN op
             ELSE [op EXCEPT !.file =
                      <<M3uHeader>> \o
                      PlaylistLines(GetPathsForUris(tracks, spotify_uris), spotify_uris)]
    /\ UNCHANGED tracks
    /\ Forget

\* ------------------------------------------------------------- two workers
\* Two threads call process_download_queue on one DownloaderService and one
\* connection (connect opens it with check_same_thread=False).  The thread that
\* executes has its locals in pc, limit, remaining_quota, queued_tracks, idx,
\* exc and run; the locals of the one that waits are in other.  No front end
\* starts a run: POST /downloader/run calls downloader.run, which the service
\* does not define, and the process-queue command only prints.
IdleWorker ==
    [ pc |-> "idle", limit |-> 0, remaining_quota |-> 0, queued_tracks |-> << >>, idx |-> 0,
      exc |-> Null, run |-> NoRun ]

\* The interpreter hands the processor to the other thread; it can do so
\* between any two calls process_download_queue makes, any number of times.
Switch ==
    /\ other' = [ pc |-> pc, limit |-> limit,
                  remaining_quota |-> remaining_quota, queued_tracks |-> queued_tracks,
                  idx |-> idx, exc |-> exc, run |-> run ]
    /\ pc' = other.pc
    /\ limit' = other.limit
    /\ remaining_quota' = other.remaining_quota
    /\ queued_tracks' = other.queued_tracks
    /\ idx' = other.idx
    /\ exc' = other.exc
    /\ run' = other.run
    /\ UNCHANGED <<tracks, metadata, daily_limit, quota_usage,
                   lastOp, db_file, journal, config>>

\* -------------------------------------------------------- opening the store
TargetSchemaVersion == 1

SchemaObjects == {"tracks", "metadata", "idx_tracks_status", "idx_metadata_artist"}

\* The statements of _migrate_to_v1, in order; the last one stamps the version.
MigrateToV1 ==
    <<"tracks", "metadata", "idx_tracks_status", "idx_metadata_artist", "user_version">>

MigrationPc ==
    <<"mig_tracks", "mig_metadata", "mig_idx_status", "mig_idx_artist", "mig_version">>

\* CREATE ... IF NOT EXISTS, and PRAGMA user_version = 1.
ApplyStatement(file, stmt) ==
    IF stmt = "user_version"
    THEN [file EXCEPT !.user_version = 1]
    ELSE [file EXCEPT !.objects = @ \cup {stmt}]

\* A database file on which the migration has run.
MigratedFile == [user_version |-> TargetSchemaVersion, objects |-> SchemaObjects]

NeedsMigration(current_version) == current_version < TargetSchemaVersion

\* Mutant: the rollback leaves what the failed migration has written.
RollbackNothing(file, j) == file

\* conn.rollback(): the file as it was at BEGIN TRANSACTION.
Rollback(file, j) == IF j = << >> THEN file ELSE j[1]

\* connect(): mkdir, sqlite3.connect, and the PRAGMA user_version read of
\* _initialize_database; any of them may raise.
Connect ==
    /\ pc = "idle"
    /\ \E ok \in BOOLEAN :
        LET op == [ op |-> "connect", before |-> db_file, applied |-> 0,
                    result |-> "running" ]
        IN IF ~ok
           THEN /\ lastOp' = [op EXCEPT !.result = "error"]
                /\ pc' = "idle"
           ELSE IF NeedsMigration(db_file.user_version)
           THEN /\ lastOp' = op
                /\ pc' = "mig_begin"
           ELSE /\ lastOp' = [op EXCEPT !.result = "ok"]
                /\ pc' = "idle"
    /\ run' = NoRun
    /\ UNCHANGED <<other, config>>
    /\ UNCHANGED <<tracks, metadata, daily_limit, limit, remaining_quota, quota_usage,
                   queued_tracks, idx, exc, db_file, journal>>

\* BEGIN TRANSACTION, executed before the try block.
MigBegin ==
    /\ pc = "mig_begin"
    /\ \E ok \in BOOLEAN :
        IF ok
        THEN /\ journal' = <<db_file>>
             /\ pc' = IF db_file.user_version < 1 THEN MigrationPc[1] ELSE "mig_commit"
             /\ UNCHANGED lastOp
        ELSE /\ pc' = "idle"
             /\ lastOp' = [lastOp EXCEPT !.result = "error"]
             /\ UNCHANGED journal
    /\ UNCHANGED <<other, config>>
    /\ UNCHANGED <<tracks, metadata, daily_limit, limit, remaining_quota, quota_usage,
                   queued_tracks, idx, exc, run, db_file>>

\* One statement of _migrate_to_v1.
MigStep ==
    /\ \E k \in 1..Len(MigrationPc) :
        /\ pc = MigrationPc[k]
        /\ \E ok \in BOOLEAN :
            IF ok
            THEN /\ db_file' = ApplyStatement(db_file, MigrateToV1[k])
                 /\ pc' = IF k < Len(MigrationPc) THEN MigrationPc[k + 1]
                                                   ELSE "mig_commit"
                 /\ lastOp' = [lastOp EXCEPT !.applied = @ + 1]
            ELSE /\ pc' = "mig_rollback"
                 /\ UNCHANGED <<db_file, lastOp>>
    /\ UNCHANGED <<other, config>>
    /\ UNCHANGED <<tracks, metadata, daily_limit, limit, remaining_quota, quota_usage,
                   queued_tracks, idx, exc, run, journal>>

MigCommit ==
    /\ pc = "mig_commit"
    /\ \E ok \in BOOLEAN :
        IF ok
        THEN /\ journal' = << >>
             /\ pc' = "idle"
             /\ lastOp' = [lastOp EXCEPT !.result = "ok"]
        ELSE /\ pc' = "mig_rollback"
             /\ UNCHANGED <<journal, lastOp>>
    /\ UNCHANGED <<other, config>>
    /\ UNCHANGED <<tracks, metadata, daily_limit, limit, remaining_quota, quota_usage,
                   queued_tracks, idx, exc, run, db_file>>

\* except sqlite3.Error: rollback and re-raise; connect() re-raises.
MigRollback ==
    /\ pc = "mig_rollback"
    /\ db_file' = Rollback(db_file, journal)
    /\ journal' = << >>
    /\ pc' = "idle"
    /\ lastOp' = [lastOp EXCEPT !.result = "error"]
    /\ UNCHANGED <<other, config>>
    /\ UNCHANGED <<tracks, metadata, daily_limit, limit, remaining_quota, quota_usage,
                   queued_tracks, idx, exc, run>>

\* ----------------------------------------------------------------- settings
\* A dictionary is the sequence of its <<key, value>> pairs in insertion
\* order. A setting's value is a string or a nested table of strings.
Str(s) == [ tag |-> "str", str |-> s, tbl |-> << >> ]
Tbl(t) == [ tag |-> "tbl", str |-> "", tbl |-> t ]

Sections == {"plex", "notifications"}
Keys == {"token", "discord"}
SubKeys == {"webhook_url"}
Scalars == {"a", "b"}
SettingValues ==
    { Str(x) : x \in Scalars }
    \cup { Tbl(<< <<k, x>> >>) : k \in SubKeys, x \in Scalars }

\* The plex section of the default configuration, with the modelled key.
DefaultConfig == << <<"plex", << <<"token", Str("a")>> >> >> >>

DictKeys(d) == { d[i][1] : i \in DOMAIN d }

DictGet(d, k) == d[CHOOSE i \in DOMAIN d : d[i][1] = k][2]

DictSet(d, k, v) ==
    IF k \in DictKeys(d)
    THEN [i \in DOMAIN d |-> IF d[i][1] = k THEN <<k, v>> ELSE d[i]]
    ELSE Append(d, <<k, v>>)

\* ConfigManager.update_setting
UpdateSettingDict(c, section, key, value) ==
    LET c1 == IF section \in DictKeys(c) THEN c ELSE Append(c, <<section, << >> >>)
    IN DictSet(c1, section, DictSet(DictGet(c1, section), key, value))

secrets_to_mask == {"client_secret", "token", "api_key", "webhook_url"}
Mask == Str("********")

\* get_settings: the response body.
GetSettingsResponse(c, show_secrets) ==
    IF show_secrets THEN c
    ELSE [i \in DOMAIN c |->
            <<c[i][1],
              [j \in DOMAIN c[i][2] |->
                 LET key == c[i][2][j][1]
                     value == c[i][2][j][2]
                 IN <<key, IF key \in secrets_to_mask THEN Mask ELSE value>>]>>]

\* str() of a value as the f-string of view_command renders it, in pieces: a
\* string is itself, a table is the repr of a dict.
RECURSIVE ReprItems(_)
ReprItems(t) ==
    IF t = << >> THEN << >>
    ELSE <<"'", t[1][1], "': '", t[1][2], "'">>
         \o (IF Len(t) > 1 THEN <<", ">> ELSE << >>)
         \o ReprItems(Tail(t))

Format(v) ==
    IF v.tag = "str" THEN <<v.str>> ELSE <<"{">> \o ReprItems(v.tbl) \o <<"}">>

\* view_command: the lines of one section's settings.
RECURSIVE KeyLines(_, _)
KeyLines(settings, show_secrets) ==
    IF settings = << >> THEN << >>
    ELSE LET key == settings[1][1]
             value == IF key \in secrets_to_mask /\ ~show_secrets
                      THEN Mask ELSE settings[1][2]
         IN << <<"  ", key, " = ">> \o Format(value) >>
            \o KeyLines(Tail(settings), show_secrets)

RECURSIVE SectionLines(_, _)
SectionLines(c, show_secrets) ==
    IF c = << >> THEN << >>
    ELSE << <<"[", c[1][1], "]">> >>
         \o KeyLines(c[1][2], show_secrets)
         \o << <<"">> >>
         \o SectionLines(Tail(c), show_secrets)

\* view_command: everything it writes to the console.
ViewLines(c, show_secrets) ==
    << <<"--- Current Configuration ---">> >> \o SectionLines(c, show_secrets)

\* POST /settings/update (the in-memory update; the file is a copy of it).
UpdateSetting ==
    /\ pc = "idle"
    /\ \E section \in Sections, key \in Keys, value \in SettingValues :
        /\ config' = UpdateSettingDict(config, section, key, value)
        /\ lastOp' = [ op |-> "update_setting", section |-> section, key |-> key ]
    /\ UNCHANGED <<tracks, metadata, daily_limit, limit, remaining_quota, quota_usage, pc,
                   queued_tracks, idx, exc, run, db_file, journal,
                   other>>

\* GET /settings
GetSettings ==
    /\ pc = "idle"
    /\ \E show_secrets \in BOOLEAN :
        lastOp' = [ op |-> "get_settings", show_secrets |-> show_secrets,
                    returned |-> GetSettingsResponse(config, show_secrets) ]
    /\ UNCHANGED <<tracks, metadata, daily_limit, limit, remaining_quota, quota_usage, pc,
                   queued_tracks, idx, exc, run, db_file, journal,
                   other, config>>

\* settings view [--show-secrets]
ViewCommand ==
    /\ pc = "idle"
    /\ \E show_secrets \in BOOLEAN :
        lastOp' = [ op |-> "settings_view", show_secrets |-> show_secrets,
                    returned |-> ViewLines(config, show_secrets) ]
    /\ UNCHANGED <<tracks, metadata, daily_limit, limit, remaining_quota, quota_usage, pc,
                   queued_tracks, idx, exc, run, db_file, journal,
                   other, config>>

\* ------------------------------------------------------------------ claims
Max(a, b) == IF a >= b THEN a ELSE b

\* The transitions of the lifecycle table.
LifecycleTable ==
    { <<"queued", "processing_download">>,
      <<"processing_download", "skipped">>,
      <<"processing_download", "download_complete">>,
      <<"processing_download", "download_failed">>,
      <<"download_complete", "processing_picard">>,
      <<"processing_picard", "organized">>,
      <<"processing_picard", "picard_failed">>,
      <<"download_failed", "queued">>,
      <<"picard_failed", "queued">> }

FetchedUris == { queued_tracks[i].spotify_uri : i \in 1..Len(queued_tracks) }

Invoked == run.dl_ok \cup run.dl_fail

\* The run of the given kind has run to the end of its loop.
RunDone(kind) == pc = "idle" /\ run.kind = kind /\ run.outcome = "done"

\* C1: every status change written to a Track is a transition of the
\* lifecycle table, also when a collaborator or a store call raises in the
\* middle of a track.
C1_OnlyTableTransitions ==
    [][\A u \in DOMAIN tracks \cap DOMAIN tracks' :
          tracks'[u].status # tracks[u].status
          => <<tracks[u].status, tracks'[u].status>> \in LifecycleTable]_vars

\* C2: a Track in organized or skipped keeps that status in every later
\* state, unless it is removed.
C2_TerminalStays ==
    [][\A u \in DOMAIN tracks \cap DOMAIN tracks' :
          tracks[u].status \in {"organized", "skipped"}
          => tracks'[u].status = tracks[u].status]_vars

\* C3: queue_track for a URI already present returns ok = false, and after a
\* queue_track call the store holds the Track of the queued URI.
C3_DuplicateQueueRejected ==
    lastOp.op = "queue_track"
    => /\ lastOp.was_present => ~lastOp.ok
       /\ lastOp.uri \in DOMAIN tracks

Substrings(s) == { SubSeq(s, i, j) : i \in 1..Len(s), j \in 1..Len(s) } \ {<<>>}

SearchHits(db, query, uri) ==
    LET rows == SearchTracks(db, query, Null)
    IN { i \in 1..Len(rows) : rows[i].spotify_uri = uri }

\* C4: after queue_track of a fresh URI, search_tracks with any substring of
\* its artist, title or album returns exactly one Track for that URI, and
\* that Track is queued.
C4_QueueThenSearch ==
    (lastOp.op = "queue_track" /\ ~lastOp.was_present)
    => \A q \in Substrings(lastOp.names.artist) \cup Substrings(lastOp.names.title)
                \cup Substrings(lastOp.names.album) :
          LET rows == SearchTracks(tracks, q, Null)
              hits == SearchHits(tracks, q, lastOp.uri)
          IN /\ Cardinality(hits) = 1
             /\ \A i \in hits : rows[i].status = "queued"

\* C5: an acquisition run started with no quota remaining returns at once:
\* it fetches nothing, starts no track, and leaves the store and the usage
\* as they were.
C5_QuotaExhaustedRunIsNoOp ==
    [][(pc = "idle" /\ run'.kind = "acq" /\ Max(0, daily_limit - quota_usage) = 0)
       => /\ tracks' = tracks
          /\ metadata' = metadata
          /\ quota_usage' = quota_usage
          /\ pc' = "idle"
          /\ queued_tracks' = <<>>
          /\ run'.fetch_calls = 0
          /\ run'.outcome = "quota"]_vars

C5_Witness ==
    /\ run.kind = "acq"
    /\ run.outcome = "quota"
    /\ daily_limit = quota_usage
    /\ \E u \in DOMAIN tracks : tracks[u].status = "queued"

EffectiveLimit(lim, remaining) ==
    IF lim > 0 THEN Min(lim, remaining) ELSE remaining

\* C6: for every limit a run picks up at most min(limit if limit > 0 else
\* unbounded, remaining) tracks, and usage grows by at most the quota that
\* remained at the start of the run.
C6_AtMostEffectiveLimit ==
    [][/\ (pc = "acq_fetch" /\ pc' = "acq_begin")
          => Len(queued_tracks') <=
                EffectiveLimit(limit, Max(0, daily_limit - run.usage0))
       /\ (run'.kind = "acq" /\ run'.outcome \in {"running", "done", "store_error"})
          => quota_usage' - run'.usage0 <= Max(0, daily_limit - run'.usage0)]_vars

\* C7: when the downloader failed for every track of a run, every track the
\* run picked up ends the run in download_failed with an error message and
\* one more failure counted, and the usage is what it was.
C7_AllDownloadsFail ==
    (RunDone("acq") /\ FetchedUris \subseteq run.dl_fail)
    => /\ quota_usage = run.usage0
       /\ \A i \in 1..Len(queued_tracks) :
            LET t == tracks[queued_tracks[i].spotify_uri]
            IN /\ t.status = "download_failed"
               /\ t.error_message \in {"exit_code", "unexpected"}
               /\ t.fail_count = queued_tracks[i].fail_count + 1

C7_Witness ==
    /\ RunDone("acq")
    /\ Len(queued_tracks) = 2
    /\ FetchedUris \subseteq run.dl_fail
    /\ \E i, j \in 1..2 : /\ queued_tracks[i].fail_count = 0
                          /\ queued_tracks[j].fail_count = 1
                          /\ tracks[queued_tracks[j].spotify_uri].fail_count = 2
                          /\ tracks[queued_tracks[i].spotify_uri].error_message = "exit_code"
                          /\ tracks[queued_tracks[j].spotify_uri].error_message = "unexpected"

\* C8: the usage a restarted process sees is the usage before the restart.
C8_UsageSurvivesRestart ==
    lastOp.op = "restart" => quota_usage = lastOp.usage_before

\* C9: a track for which the downloader exited 0 ends the run in
\* download_complete with its temp path set, and the usage grows by one per
\* such track and by nothing else.
C9_SuccessRecorded ==
    RunDone("acq")
    => /\ \A u \in FetchedUris \cap run.dl_ok :
            /\ tracks[u].status = "download_complete"
            /\ tracks[u].temp_download_path # NoPath
       /\ quota_usage - run.usage0 = Cardinality(run.dl_ok)

StartStatus(kind) == IF kind = "acq" THEN "queued" ELSE "download_complete"

C11_StorageErrorHaltsRun ==
    [][(pc = "acq_except" /\ exc = "sqlite3.Error"
            /\ run'.outcome # "killed")
       => /\ tracks' = tracks
          /\ pc' = "idle"
          /\ run'.outcome = "store_error"]_vars

NotFailed(db, uri) ==
    uri \notin DOMAIN db \/ db[uri].status \notin FailureStatuses

\* C12: reset_track_status for a URI that is unknown or not in a failure
\* status returns false and leaves the store as it was.
C12_ResetOfNonFailedRefused ==
    (lastOp.op = "reset_track_status" /\ NotFailed(lastOp.before, lastOp.uri))
    => /\ ~lastOp.ok
       /\ tracks = lastOp.before

QueuedUris(db) ==
    LET q == GetTracksByStatus(db, "queued", 0)
    IN { q[i].spotify_uri : i \in 1..Len(q) }

\* C13: reset_track_status for a track in a failure status returns true and
\* changes that track's status to queued and nothing else; the next
\* acquisition fetch returns the track.
C13_ResetOfFailedRequeues ==
    (lastOp.op = "reset_track_status" /\ ~NotFailed(lastOp.before, lastOp.uri))
    => /\ lastOp.ok
       /\ tracks = [lastOp.before EXCEPT ![lastOp.uri].status = "queued"]
       /\ lastOp.uri \in QueuedUris(tracks)

\* C14: reset_all_failed_tracks moves exactly the tracks in a failure status
\* to queued, returns their number, and leaves every other track as it was.
C14_ResetAllFailed ==
    lastOp.op = "reset_all_failed_tracks"
    => /\ lastOp.count =
            Cardinality({ u \in DOMAIN lastOp.before : ~NotFailed(lastOp.before, u) })
       /\ tracks = [u \in DOMAIN lastOp.before |->
                      IF NotFailed(lastOp.before, u) THEN lastOp.before[u]
                      ELSE [lastOp.before[u] EXCEPT !.status = "queued"]]

\* C15: remove_track of a known URI returns true and deletes the track and
\* its metadata row; of an unknown URI it returns false and changes nothing.
C15_RemoveDeletes ==
    lastOp.op = "remove_track"
    => IF lastOp.uri \in DOMAIN lastOp.before
       THEN /\ lastOp.ok
            /\ GetTrackDetails(tracks, metadata, lastOp.uri) = << >>
            /\ metadata[lastOp.before[lastOp.uri].id] = "no_row"
       ELSE /\ ~lastOp.ok
            /\ tracks = lastOp.before
            /\ metadata = lastOp.before_md

OrgReturned == pc = "idle" /\ run.kind = "org" /\ run.outcome # "killed"

\* C19: when an organization run has returned, every track that was
\* download_complete with its temp file on disk is organized, with a final
\* path and a metadata row, unless the tagger or the tag read failed for it
\* (then it is picard_failed).
C19_TaggedTrackOrganized ==
    OrgReturned
    => \A u \in run.start \ run.absent :
          /\ tracks[u].status \in {"organized", "picard_failed"}
          /\ tracks[u].status = "organized"
             => /\ tracks[u].local_path # NoPath
                /\ metadata[tracks[u].id] # "no_row"

\* C20: when an organization run has returned, every track that was
\* download_complete with its temp file no longer on disk is picard_failed
\* with the file-missing message.
C20_MissingFileFails ==
    OrgReturned
    => \A u \in run.absent :
          /\ tracks[u].status = "picard_failed"
          /\ tracks[u].error_message = "file_missing"

\* C21: at the end of an acquisition run, a track the monitoring service
\* reported on_disk is skipped with status_lidarr on_disk and the downloader
\* was not invoked for it; a track it reported monitored has status_lidarr
\* monitored and the downloader was invoked for it; the usage grew by no more
\* than the number of fetched tracks that were not reported on_disk.
C21_MonitoringReport ==
    RunDone("acq")
    => /\ \A p \in run.reported :
            IF p[2] = "on_disk"
            THEN /\ tracks[p[1]].status = "skipped"
                 /\ tracks[p[1]].status_lidarr = "on_disk"
                 /\ p[1] \notin Invoked
            ELSE /\ tracks[p[1]].status_lidarr = "monitored"
                 /\ p[1] \in Invoked
       /\ quota_usage - run.usage0 <=
            Cardinality({ u \in FetchedUris : <<u, "on_disk">> \notin run.reported })

\* C22: an open that fails leaves the file with the schema and the stamped
\* version it had before the open; an open of a file already stamped with
\* the target version (or a later one) changes nothing; an open that
\* migrates ends with the whole of the migration applied; no transaction is
\* left open.
C22_MigrationAllOrNothing ==
    (lastOp.op = "connect" /\ lastOp.result \in {"ok", "error"})
    => /\ journal = << >>
       /\ lastOp.result = "error" => db_file = lastOp.before
       /\ (lastOp.result = "ok" /\ ~NeedsMigration(lastOp.before.user_version))
          => /\ db_file = lastOp.before
             /\ lastOp.applied = 0
       /\ (lastOp.result = "ok" /\ NeedsMigration(lastOp.before.user_version))
          => /\ db_file.user_version = TargetSchemaVersion
             /\ db_file.objects = lastOp.before.objects \cup SchemaObjects

C22_Witness ==
    /\ lastOp.op = "connect"
    /\ lastOp.result = "error"
    /\ lastOp.applied = Len(MigrateToV1) - 1
    /\ lastOp.before.objects = {}

Resolves(db, u) == u \in DOMAIN db /\ db[u].status = "organized"

\* C23: the playlist file holds, after its header, one path line for each
\* input URI of an organized track, in input order, and none for the other
\* URIs; the call returns (number of lines written, number of input URIs).
C23_PlaylistLinesAndCounts ==
    lastOp.op = "generate_playlist"
    => LET IsResolved(u) == Resolves(tracks, u)
           r == SelectSeq(lastOp.uris, IsResolved)
       IN /\ lastOp.file =
                <<M3uHeader>> \o [i \in 1..Len(r) |-> PathInM3u(tracks[r[i]].local_path)]
          /\ lastOp.returned = <<Len(r), Len(lastOp.uris)>>

LowerSeq(s) == [i \in 1..Len(s) |-> Lower(s[i])]

\* q occurs in s as a substring, letter case ignored.
ContainsCI(s, q) ==
    \E i \in 1..(Len(s) - Len(q) + 1) :
        LowerSeq(SubSeq(s, i, i + Len(q) - 1)) = LowerSeq(q)

\* C24: search_tracks returns exactly the tracks that contain the text, as a
\* case-insensitive substring of artist, title or album, when a text is
\* given, and have the status, when a status is given; all tracks when none
\* is given; newest added first.
C24_SearchExactlyMatching ==
    lastOp.op = "search_tracks"
    => lastOp.rows =
         SeqOfSet({ r \in Rows(tracks) :
                      /\ lastOp.query # NoText
                         => \/ ContainsCI(r.artist_name_spotify, lastOp.query)
                            \/ ContainsCI(r.track_name_spotify, lastOp.query)
                            \/ ContainsCI(r.album_name_spotify, lastOp.query)
                      /\ lastOp.status # Null => r.status = lastOp.status },
                  FALSE)

ProcessingStatuses == {"processing_download", "processing_picard"}

\* C25: the retry operations return a track that a terminated run left in
\* processing_download or processing_picard to the pipeline: after
\* reset_track_status of such a track, and after reset_all_failed_tracks, the
\* track is queued.
C25_RetryRecoversInterrupted ==
    /\ (/\ lastOp.op = "reset_track_status"
        /\ lastOp.uri \in DOMAIN lastOp.before
        /\ lastOp.before[lastOp.uri].status \in ProcessingStatuses)
       => tracks[lastOp.uri].status = "queued"
    /\ lastOp.op = "reset_all_failed_tracks"
       => \A u \in DOMAIN lastOp.before :
             lastOp.before[u].status \in ProcessingStatuses
             => tracks[u].status = "queued"

\* C26: while an acquisition run is in its loop, the fetched list is in
\* ascending added_date order, the tracks after the current one are still
\* queued, the tracks before it have left queued and processing_download, so
\* only the current track can be in processing_download; and a step of the
\* run changes no track but the current one.
C26_OneAtATimeInOrder ==
    /\ []((run.kind = "acq" /\ pc \notin {"idle", "acq_fetch"})
          => /\ \A i, j \in 1..Len(queued_tracks) :
                   i < j => queued_tracks[i].added_date <= queued_tracks[j].added_date
             /\ \A i \in 1..Len(queued_tracks) :
                   LET t == tracks[queued_tracks[i].spotify_uri]
                   IN /\ i > idx => t.status = "queued"
                      /\ i < idx => t.status \notin {"queued", "processing_download"}
                      /\ t.status = "processing_download" => i = idx)
    /\ [][(run.kind = "acq" /\ pc \notin {"idle", "acq_fetch"} /\ run'.outcome # "killed")
          => \A u \in DOMAIN tracks :
                tracks'[u] # tracks[u] => u = queued_tracks[idx].spotify_uri]_vars

C26_Witness ==
    /\ run.kind = "acq"
    /\ pc = "acq_download"
    /\ idx = 2
    /\ queued_tracks[1].spotify_uri = 2
    /\ tracks[2].status = "download_complete"
    /\ tracks[1].status = "processing_download"

\* C27: two acquisition runs never have the downloader invoked for the same
\* track, and their combined usage stays within the ceiling.
C27_WorkersShareNoTrack ==
    (run.kind = "acq" /\ other.run.kind = "acq")
    => /\ Invoked \cap (other.run.dl_ok \cup other.run.dl_fail) = {}
       /\ quota_usage <= Max(daily_limit, LoadQuotaUsage)

\* C29: when an acquisition run has returned, the usage has grown by the
\* number of downloader invocations of the run that exited with code 0.
C29_EveryDownloadCounted ==
    (pc = "idle" /\ run.kind = "acq" /\ run.outcome # "killed")
    => quota_usage - run.usage0 = Cardinality(run.dl_ok)

\* The configuration with every value of a key named in secrets_to_mask, at
\* either depth, replaced by the string f gives for that name.
WithSecrets(c, f) ==
    [i \in DOMAIN c |->
       <<c[i][1],
         [j \in DOMAIN c[i][2] |->
            LET key == c[i][2][j][1]
                value == c[i][2][j][2]
            IN <<key,
                 IF key \in secrets_to_mask THEN Str(f[key])
                 ELSE IF value.tag = "tbl"
                 THEN Tbl([n \in DOMAIN value.tbl |->
                             LET sub == value.tbl[n]
                             IN IF sub[1] \in secrets_to_mask
                                THEN <<sub[1], f[sub[1]]>> ELSE sub])
                 ELSE value>>]>>]

\* C30: what a settings read without show_secrets has returned is what it
\* returns for every configuration that differs from this one only in the
\* values of keys named client_secret, token, api_key or webhook_url; each
\* such value is shown as '********' and every other value as it is.
C30_SecretsNeverRevealed ==
    (lastOp.op \in {"get_settings", "settings_view"} /\ ~lastOp.show_secrets)
    => /\ \A f \in [secrets_to_mask -> Scalars] :
            lastOp.returned =
                IF lastOp.op = "get_settings"
                THEN GetSettingsResponse(WithSecrets(config, f), FALSE)
                ELSE ViewLines(WithSecrets(config, f), FALSE)
       /\ lastOp.op = "get_settings"
          => \A i \in DOMAIN config : \A j \in DOMAIN config[i][2] :
                LET key == config[i][2][j][1]
                IN lastOp.returned[i][2][j] =
                     <<key, IF key \in secrets_to_mask
                            THEN Mask ELSE config[i][2][j][2]>>

\* ---------------------------------------------------------- specification
\* Spec is the pipeline: acquisition runs and calls of the organization stage
\* over a table of queued tracks, with restarts of the process.  The store calls of the front
\* ends (queue_track, reset_track_status, reset_all_failed_tracks,
\* remove_track) return a constant and leave every table as it is
\* (QueueTrackDb, ResetTrackStatusDb, ResetAllFailedDb, RemoveTrackDb), so
\* they cannot change what a run sees; they are exercised in SpecStore below,
\* over tables holding rows in every status.
Init ==
    /\ \E present \in SUBSET URIs :
       \E fails \in [present -> 0..1] :
       \E newestFirst \in BOOLEAN :
          tracks = [u \in present |->
                      NewRow(u, CatalogNames(u),
                             IF newestFirst THEN MaxTracks + 1 - u ELSE u,
                             fails[u])]
    /\ metadata = [u \in URIs |-> "no_row"]
    /\ daily_limit \in DailyLimits
    /\ limit = 0
    /\ remaining_quota = 0
    /\ quota_usage = LoadQuotaUsage
    /\ pc = "idle"
    /\ queued_tracks = <<>>
    /\ idx = 0
    /\ exc = Null
    /\ run = NoRun
    /\ lastOp = NoOp
    /\ db_file = MigratedFile
    /\ journal = << >>
    /\ other = IdleWorker
    /\ config = DefaultConfig

Next ==
    \/ AcqStart
    \/ AcqFetch
    \/ AcqBegin
    \/ AcqLidarr
    \/ AcqSkip
    \/ AcqSkipLidarr
    \/ AcqMonitored
    \/ AcqDownload
    \/ AcqComplete
    \/ AcqTempPath
    \/ AcqCount
    \/ AcqFailed
    \/ AcqExcept
    \/ OrgStart
    \/ Restart

Spec == Init /\ [][Next]_vars

\* The front-end store calls alone, on a database file holding rows in any
\* status with any of the catalog's display fields.
RowInStatus(uri, names, added, status) ==
    [ NewRow(uri, names, added, 0) EXCEPT
        !.status = status,
        !.last_attempt_date = IF status = "queued" THEN Null ELSE "set",
        !.fail_count = IF status \in FailureStatuses THEN 1 ELSE 0,
        !.error_message =
            CASE status = "queued" -> Null
              [] status = "processing_download" -> "starting"
              [] status = "download_complete" -> "downloaded"
              [] status = "skipped" -> "fulfilled_by_lidarr"
              [] status = "processing_picard" -> "processing"
              [] status = "organized" -> "organized"
              [] OTHER -> "exit_code",
        !.temp_download_path =
            IF status \in {"download_complete", "processing_picard", "picard_failed"}
            THEN TempPath(NewRow(uri, names, added, 0)) ELSE NoPath,
        !.local_path =
            IF status = "organized"
            THEN FinalPath(NewRow(uri, names, added, 0)) ELSE NoPath,
        !.status_lidarr = IF status = "skipped" THEN "on_disk" ELSE "unknown" ]

InitStore ==
    /\ \E present \in SUBSET URIs :
       \E names \in [present -> NameTriples] :
       \E status \in [present -> Statuses] :
       \E newestFirst \in BOOLEAN :
          /\ tracks = [u \in present |->
                        RowInStatus(u, names[u],
                                    IF newestFirst THEN MaxTracks + 1 - u ELSE u,
                                    status[u])]
          /\ metadata = [u \in URIs |->
                          IF u \in present /\ status[u] = "organized"
                          THEN <<"R1", "R2", "R3", "R4">>[u] ELSE "no_row"]
    /\ daily_limit = LoadQuotaUsage + MaxRemaining
    /\ limit = 0
    /\ remaining_quota = 0
    /\ quota_usage = LoadQuotaUsage
    /\ pc = "idle"
    /\ queued_tracks = <<>>
    /\ idx = 0
    /\ exc = Null
    /\ run = NoRun
    /\ lastOp = NoOp
    /\ db_file = MigratedFile
    /\ journal = << >>
    /\ other = IdleWorker
    /\ config = DefaultConfig

NextStore ==
    \/ QueueTrack
    \/ SearchTracksCall
    \/ GeneratePlaylist
    \/ ResetTrackStatus
    \/ ResetAllFailedTracks
    \/ RemoveTrack

SpecStore == InitStore /\ [][NextStore]_vars

\* Opening a database file: a new one, one an unstamped earlier build has left
\* some objects in, a migrated one, or one stamped by a later build.
InitOpen ==
    /\ \E v \in 0..MaxStampedVersion :
       \E objs \in SUBSET SchemaObjects :
          /\ v >= TargetSchemaVersion => objs = SchemaObjects
          /\ "idx_tracks_status" \in objs => "tracks" \in objs
          /\ "idx_metadata_artist" \in objs => "metadata" \in objs
          /\ db_file = [user_version |-> v, objects |-> objs]
    /\ journal = << >>
    /\ other = IdleWorker
    /\ config = DefaultConfig
    /\ tracks = [u \in {} |-> Null]
    /\ metadata = [u \in URIs |-> "no_row"]
    /\ daily_limit = LoadQuotaUsage + MaxRemaining
    /\ limit = 0
    /\ remaining_quota = 0
    /\ quota_usage = LoadQuotaUsage
    /\ pc = "idle"
    /\ queued_tracks = <<>>
    /\ idx = 0
    /\ exc = Null
    /\ run = NoRun
    /\ lastOp = NoOp

NextOpen ==
    \/ Connect
    \/ MigBegin
    \/ MigStep
    \/ MigCommit
    \/ MigRollback

SpecOpen == InitOpen /\ [][NextOpen]_vars

\* Two workers over a store of queued tracks.
InitConc ==
    /\ tracks = [u \in URIs |-> NewRow(u, CatalogNames(u), u, 0)]
    /\ metadata = [u \in URIs |-> "no_row"]
    /\ daily_limit = LoadQuotaUsage + MaxRemaining
    /\ limit = 0
    /\ remaining_quota = 0
    /\ quota_usage = LoadQuotaUsage
    /\ pc = "idle"
    /\ queued_tracks = <<>>
    /\ idx = 0
    /\ exc = Null
    /\ run = NoRun
    /\ lastOp = NoOp
    /\ db_file = MigratedFile
    /\ journal = << >>
    /\ other = IdleWorker
    /\ config = DefaultConfig

NextConc ==
    \/ AcqStart
    \/ AcqFetch
    \/ AcqBegin
    \/ AcqLidarr
    \/ AcqSkip
    \/ AcqSkipLidarr
    \/ AcqMonitored
    \/ AcqDownload
    \/ AcqComplete
    \/ AcqTempPath
    \/ AcqCount
    \/ AcqFailed
    \/ AcqExcept
    \/ Switch

SpecConc == InitConc /\ [][NextConc]_vars

\* The settings front ends on a loaded configuration.
NextSettings ==
    \/ UpdateSetting
    \/ GetSettings
    \/ ViewCommand

InitSettings ==
    /\ config = DefaultConfig
    /\ tracks = [u \in {} |-> Null]
    /\ metadata = [u \in URIs |-> "no_row"]
    /\ daily_limit = LoadQuotaUsage + MaxRemaining
    /\ limit = 0
    /\ remaining_quota = 0
    /\ quota_usage = LoadQuotaUsage
    /\ pc = "idle"
    /\ queued_tracks = <<>>
    /\ idx = 0
    /\ exc = Null
    /\ run = NoRun
    /\ lastOp = NoOp
    /\ db_file = MigratedFile
    /\ journal = << >>
    /\ other = IdleWorker

SpecSettings == InitSettings /\ [][NextSettings]_vars

====
